---- MODULE Spec2Model ----
(***************************************************************************)
(* Model of src/dynamic_range.py: calculate_dynamic_range and the          *)
(* directory loop of __main__.                                             *)
(*                                                                         *)
(* Numbers.  A luminance sample is a natural number on a fixed-point grid. *)
(* A percentile value is held as a decimal number m * 10^e (tag "num");    *)
(* np.percentile's linear interpolation with percentiles given in tenths   *)
(* of a percent is exact with e = -3.  The value 20*log10(x) is held as    *)
(* the exact ratio x = num/den * 10^e (tag "stops"): log10 is strictly     *)
(* increasing, so 20*log10(x) <= 20*k iff x <= 10^k, 20*log10(x) = 0 iff   *)
(* x = 1, and x = 0 stands for -inf.                                       *)
(***************************************************************************)
EXTENDS Integers, Sequences, FiniteSets

VARIABLES image_path, bits_per_pixel, percentile_max, percentile_min,
          pc, gray, gray_filtered, min_val, max_val, dynamic_range,
          unclamped, exc, ret,
          listing, pos, printed, ncalls, results,
          first

vars == <<image_path, bits_per_pixel, percentile_max, percentile_min,
          pc, gray, gray_filtered, min_val, max_val, dynamic_range,
          unclamped, exc, ret, listing, pos, printed, ncalls, results, first>>

locals == <<gray, gray_filtered, min_val, max_val, dynamic_range, unclamped>>
params == <<image_path, bits_per_pixel, percentile_max, percentile_min>>
cli == <<listing, pos, printed, ncalls, results>>

----------------------------------------------------------------------------
(* Bounds of the model *)

MaxLen == 3
MaxRgbLen == 2
MaxFiles == 2
BigSample == 2100000

(* sample values of a decoded single-channel image *)
Levels == {0, 1, 2, BigSample}

(* pixels of a decoded three-channel image, in array channel order *)
ColourPixels == {<<0, 0, 0>>, <<255, 255, 255>>, <<200, 10, 30>>}

(* percentiles in tenths of a percent; 1001 stands for a value above 100 *)
PercentileChoices == {0, 1, 500, 999, 1000, 1001}
BitsChoices == {8, 14}

(* the percentiles of the calls that are compared with each other *)
PairMaxChoices == {500, 999, 1000}
PairMinChoices == {1, 500}

----------------------------------------------------------------------------
(* Values *)

Unset == [tag |-> "unset"]
NoneVal == [tag |-> "None"]
Array(px) == [tag |-> "array", px |-> px]
Num(m, e) == [tag |-> "num", m |-> m, e |-> e]
Stops(n, d, e) == [tag |-> "stops", num |-> n, den |-> d, e |-> e]

RECURSIVE Pow10(_)
Pow10(k) == IF k = 0 THEN 1 ELSE 10 * Pow10(k - 1)

(* a/b <= c/d for a, c >= 0 and b, d > 0, by comparing the integer parts   *)
(* and then the reciprocals of the fractional parts (no product is formed) *)
RECURSIVE RatLeq(_, _, _, _)
RatLeq(a, b, c, d) ==
    IF a \div b # c \div d THEN a \div b < c \div d
    ELSE IF a % b = 0 THEN TRUE
    ELSE IF c % d = 0 THEN FALSE
    ELSE RatLeq(d, c % d, b, a % b)

(* num/den * 10^e <= 10^k *)
RatioLeqPow10(s, k) ==
    IF k - s.e >= 0 THEN RatLeq(s.num, s.den, Pow10(k - s.e), 1)
    ELSE RatLeq(s.num, s.den, 1, Pow10(s.e - k))

(* num/den * 10^e >= 10^k *)
RatioGeqPow10(s, k) ==
    IF k - s.e >= 0 THEN RatLeq(Pow10(k - s.e), 1, s.num, s.den)
    ELSE RatLeq(1, Pow10(s.e - k), s.num, s.den)

(* 20*log10(x) == 0.0 *)
StopsIsZero(s) == RatioLeqPow10(s, 0) /\ RatioGeqPow10(s, 0)

(* 20*log10(x) >= 0 *)
StopsNonNeg(s) == RatioGeqPow10(s, 0)

----------------------------------------------------------------------------
(* Defaults of the signature, line 6 *)

DefaultBitsPerPixel == 14
DefaultPercentileMax == 999
DefaultPercentileMin == 1

(* Line 22 and line 59 *)
RawExtensions == {".arw", ".dng", ".nef", ".cr2", ".cr3", ".raf"}
image_extensions == {".jpg", ".jpeg", ".png", ".bmp", ".tif", ".tiff",
                     ".arw", ".dng", ".nef", ".cr2", ".cr3", ".raf"}

(* the file-name endings of the model *)
PathExts == {".jpg", ".ARW"}

(* str.lower() on the endings of the model *)
Lower(ext) ==
    CASE ext = ".ARW" -> ".arw"
      [] ext = ".JPG" -> ".jpg"
      [] OTHER -> ext

IsRawPath(path) == Lower(path.ext) \in RawExtensions
HasImageExtension(path) == Lower(path.ext) \in image_extensions

----------------------------------------------------------------------------
(* Sources: a path and what the decoders find in the file *)

SeqsUpTo(S, n) == UNION {[1..k -> S] : k \in 1..n}

(* px: the samples of a single-channel image; rgb: the pixels of a         *)
(* three-channel one; a corrupt file has neither                           *)
Corrupt == [kind |-> "corrupt", px |-> <<>>, rgb |-> <<>>]

Contents ==
    {Corrupt}
    \cup {[kind |-> "mono", px |-> f, rgb |-> <<>>] :
             f \in SeqsUpTo(Levels, MaxLen)}
    \cup {[kind |-> "rgb", px |-> <<>>, rgb |-> f] :
             f \in SeqsUpTo(ColourPixels, MaxRgbLen)}

File(ext, c) == [ext |-> ext, kind |-> c.kind, px |-> c.px, rgb |-> c.rgb]

Sources == {File(x, c) : x \in PathExts, c \in Contents}

(* cv2.cvtColor(rgb, cv2.COLOR_BGR2GRAY): channel 0 is weighted as blue *)
CvtColorBGR2GRAY(px) ==
    [i \in 1..Len(px) |->
        (114 * px[i][1] + 587 * px[i][2] + 299 * px[i][3] + 500) \div 1000]

(* the grayscale a standard decoder makes of red, green, blue *)
DecodeGrayscale(px) ==
    [i \in 1..Len(px) |->
        (299 * px[i][1] + 587 * px[i][2] + 114 * px[i][3] + 500) \div 1000]

(* rawpy.imread raises on a file it cannot decode *)
RawpyRaises(path) == path.kind = "corrupt"

(* lines 24-28: raw_image of two dimensions is used as it is, otherwise    *)
(* the postprocessed image is reduced with cvtColor                        *)
RawGray(path) ==
    IF path.kind = "mono" THEN Array(path.px)
    ELSE Array(CvtColorBGR2GRAY(path.rgb))

(* an unreadable file taken for a black image *)
ImreadFallback(path) ==
    IF path.kind = "corrupt" THEN Array(<<0>>)
    ELSE IF path.kind = "mono" THEN Array(path.px)
    ELSE Array(DecodeGrayscale(path.rgb))

(* cv2.imread(image_path, cv2.IMREAD_GRAYSCALE): None when it cannot read *)
Imread(path) ==
    IF path.kind = "corrupt" THEN NoneVal
    ELSE IF path.kind = "mono" THEN Array(path.px)
    ELSE Array(DecodeGrayscale(path.rgb))

----------------------------------------------------------------------------
(* cv2.bilateralFilter(gray.astype(np.float32), d=9, sigmaColor=75,        *)
(* sigmaSpace=7) on a row of samples: each sample becomes the normalised   *)
(* weighted mean of the samples of its window, the weight being the        *)
(* product of a spatial and a range kernel; the mean is taken on the grid  *)
(* of the samples                                                          *)

d == 9
sigmaColor == 75
sigmaSpace == 7

Abs(x) == IF x < 0 THEN -x ELSE x

(* exp(-k^2 / (2 sigmaSpace^2)) to first order, times 2 sigmaSpace^2 *)
SpaceWeight(k) == 2 * sigmaSpace * sigmaSpace - k * k

(* the range kernel as a box: samples within sigmaColor are averaged *)
ColorWeight(delta) == IF delta <= sigmaColor THEN 1 ELSE 0

Weight(g, i, j) == SpaceWeight(Abs(i - j)) * ColorWeight(Abs(g[i] - g[j]))

Window(g, i) == {j \in 1..Len(g) : Abs(i - j) <= d \div 2}

RECURSIVE SumOver(_, _, _, _)
SumOver(S, g, i, withValue) ==
    IF S = {} THEN 0
    ELSE LET j == CHOOSE x \in S : TRUE
         IN  Weight(g, i, j) * (IF withValue THEN g[j] ELSE 1)
             + SumOver(S \ {j}, g, i, withValue)

(* a positive mean stays positive in floating point: round up to the grid *)
CeilDiv(a, b) == (a + b - 1) \div b

BilateralFilter(g) ==
    [i \in 1..Len(g) |->
        CeilDiv(SumOver(Window(g, i), g, i, TRUE),
                SumOver(Window(g, i), g, i, FALSE))]

(* None has no astype: AttributeError *)
AstypeRaises(g) == g = NoneVal

----------------------------------------------------------------------------
(* np.percentile *)

RECURSIVE Insert(_, _)
Insert(s, x) ==
    IF s = <<>> THEN <<x>>
    ELSE IF x <= Head(s) THEN <<x>> \o s
    ELSE <<Head(s)>> \o Insert(Tail(s), x)

(* the samples taken in the order of the array *)
Unsorted(s) == s

RECURSIVE Sort(_)
Sort(s) == IF s = <<>> THEN <<>> ELSE Insert(Sort(Tail(s)), Head(s))

IsNonNegative(x) == x >= 0

IsPositive(x) == x > 0

(* the mask left out: every sample is in the population *)
AllSamples(a) == a

(* gray_filtered[gray_filtered > 0] *)
PositiveSamples(a) == SelectSeq(a, IsPositive)

(* ValueError for a percentile outside [0, 100] *)
PercentileInvalid(q) == q < 0 \/ q > 1000

(* an empty population cannot be indexed: IndexError *)
PercentileEmpty(a) == Len(a) = 0

(* the fraction of the index added instead of a fraction of the step *)
Percentile1000IndexFraction(a, q) ==
    LET s == Sort(a)
        n == Len(s)
        lo == (q * (n - 1)) \div 1000
        fr == (q * (n - 1)) % 1000
        hi == IF lo + 1 > n - 1 THEN n - 1 ELSE lo + 1
    IN  1000 * s[lo + 1] + (IF s[hi + 1] >= s[lo + 1] THEN fr ELSE 0)

(* method "linear": the value at virtual index q/1000 * (n - 1) of the     *)
(* sorted samples, times 1000                                              *)
Percentile1000(a, q) ==
    LET s == Sort(a)
        n == Len(s)
        lo == (q * (n - 1)) \div 1000
        fr == (q * (n - 1)) % 1000
        hi == IF lo + 1 > n - 1 THEN n - 1 ELSE lo + 1
    IN  1000 * s[lo + 1] + (s[hi + 1] - s[lo + 1]) * fr

Percentile(a, q) == Num(Percentile1000(a, q), -3)

----------------------------------------------------------------------------
(* lines 41-51 *)

(* 1e-10 *)
Epsilon == Num(1, -10)

IsZero(v) == v.m = 0

(* 20 * np.log10(max_val / min_val) *)
Log10Ratio(hi, lo) == Stops(hi.m, lo.m, hi.e - lo.e)

(* a ceiling derived from the bit depth, 6 per bit *)
BitDepthCeiling == 6 * bits_per_pixel

max_dynamic_range == 120

(* the number 120 as 20*log10(10^6) *)
Ceiling == Stops(Pow10(max_dynamic_range \div 20), 1, 0)

(* b < a, for b the ceiling *)
CeilingLess(a) == ~RatioLeqPow10(a, max_dynamic_range \div 20)

(* the larger of the two instead of the smaller *)
PyMax(a, b) == IF CeilingLess(a) THEN a ELSE b

(* min(a, b) of Python: b when b < a, otherwise a *)
PyMin(a, b) == IF CeilingLess(a) THEN b ELSE a

(* except Exception *)
ExceptionKinds == {"LibRawError", "AttributeError", "IndexError", "ValueError"}

(* a handler for I/O failures only *)
CatchesIOError(e) == e \in {"LibRawError"}

Catches(e) == e \in ExceptionKinds

(* truth value of the returned object: None and 0.0 are false *)
Truthy(v) == v # NoneVal /\ ~StopsIsZero(v)

----------------------------------------------------------------------------
(* calculate_dynamic_range, one action per statement of the try block *)

NoException == "none"

(* entry: the locals of a call are fresh *)
Enter(path, bits, pmax, pmin) ==
    /\ image_path' = path
    /\ bits_per_pixel' = bits
    /\ percentile_max' = pmax
    /\ percentile_min' = pmin
    /\ gray' = Unset
    /\ gray_filtered' = Unset
    /\ min_val' = Unset
    /\ max_val' = Unset
    /\ dynamic_range' = Unset
    /\ unclamped' = Unset
    /\ exc' = NoException
    /\ ret' = Unset
    /\ pc' = "load"

Raise(kind) ==
    /\ exc' = kind
    /\ pc' = "except"

(* a call from outside the module, with any arguments *)
Call ==
    /\ pc = "idle"
    /\ \E path \in Sources, bits \in BitsChoices,
          pmax \in PercentileChoices, pmin \in PercentileChoices :
            Enter(path, bits, pmax, pmin)
    /\ UNCHANGED <<cli, first>>

(* lines 22-30 *)
Load ==
    /\ pc = "load"
    /\ IF IsRawPath(image_path)
       THEN IF RawpyRaises(image_path)
            THEN Raise("LibRawError") /\ UNCHANGED gray
            ELSE gray' = RawGray(image_path) /\ pc' = "filter" /\ UNCHANGED exc
       ELSE gray' = Imread(image_path) /\ pc' = "filter" /\ UNCHANGED exc
    /\ UNCHANGED <<params, gray_filtered, min_val, max_val, dynamic_range,
                   unclamped, ret, cli, first>>

(* line 34 *)
Filter ==
    /\ pc = "filter"
    /\ IF AstypeRaises(gray)
       THEN Raise("AttributeError") /\ UNCHANGED gray_filtered
       ELSE /\ gray_filtered' = Array(BilateralFilter(gray.px))
            /\ pc' = "pmin"
            /\ UNCHANGED exc
    /\ UNCHANGED <<params, gray, min_val, max_val, dynamic_range,
                   unclamped, ret, cli, first>>

(* line 37 *)
PercentileMin ==
    /\ pc = "pmin"
    /\ LET population == PositiveSamples(gray_filtered.px)
       IN  IF PercentileInvalid(percentile_min)
           THEN Raise("ValueError") /\ UNCHANGED min_val
           ELSE IF PercentileEmpty(population)
           THEN Raise("IndexError") /\ UNCHANGED min_val
           ELSE /\ min_val' = Percentile(population, percentile_min)
                /\ pc' = "pmax"
                /\ UNCHANGED exc
    /\ UNCHANGED <<params, gray, gray_filtered, max_val, dynamic_range,
                   unclamped, ret, cli, first>>

(* line 38 *)
PercentileMax ==
    /\ pc = "pmax"
    /\ IF PercentileInvalid(percentile_max)
       THEN Raise("ValueError") /\ UNCHANGED max_val
       ELSE IF PercentileEmpty(gray_filtered.px)
       THEN Raise("IndexError") /\ UNCHANGED max_val
       ELSE /\ max_val' = Percentile(gray_filtered.px, percentile_max)
            /\ pc' = "guard"
            /\ UNCHANGED exc
    /\ UNCHANGED <<params, gray, gray_filtered, min_val, dynamic_range,
                   unclamped, ret, cli, first>>

(* lines 41-42 *)
Guard ==
    /\ pc = "guard"
    /\ min_val' = IF IsZero(min_val) THEN Epsilon ELSE min_val
    /\ pc' = "log"
    /\ UNCHANGED <<params, gray, gray_filtered, max_val, dynamic_range,
                   unclamped, exc, ret, cli, first>>

(* line 45; unclamped keeps the value that line 49 overwrites *)
Log ==
    /\ pc = "log"
    /\ dynamic_range' = Log10Ratio(max_val, min_val)
    /\ unclamped' = Log10Ratio(max_val, min_val)
    /\ pc' = "clamp"
    /\ UNCHANGED <<params, gray, gray_filtered, min_val, max_val,
                   exc, ret, cli, first>>

(* lines 48-51 *)
Clamp ==
    /\ pc = "clamp"
    /\ dynamic_range' = PyMin(dynamic_range, Ceiling)
    /\ ret' = PyMin(dynamic_range, Ceiling)
    /\ pc' = "done"
    /\ UNCHANGED <<params, gray, gray_filtered, min_val, max_val,
                   unclamped, exc, cli, first>>

(* lines 53-55 *)
Except ==
    /\ pc = "except"
    /\ IF Catches(exc)
       THEN ret' = NoneVal /\ pc' = "done"
       ELSE ret' = ret /\ pc' = "uncaught"
    /\ UNCHANGED <<params, locals, exc, cli, first>>

(* the caller has the result; the frame of the call is gone *)
Return ==
    /\ pc = "done"
    /\ pc' = "idle"
    /\ image_path' = File(".jpg", Corrupt)
    /\ bits_per_pixel' = DefaultBitsPerPixel
    /\ percentile_max' = DefaultPercentileMax
    /\ percentile_min' = DefaultPercentileMin
    /\ gray' = Unset
    /\ gray_filtered' = Unset
    /\ min_val' = Unset
    /\ max_val' = Unset
    /\ dynamic_range' = Unset
    /\ unclamped' = Unset
    /\ exc' = NoException
    /\ ret' = Unset
    /\ UNCHANGED <<cli, first>>

NoCall ==
    /\ image_path = File(".jpg", Corrupt)
    /\ bits_per_pixel = DefaultBitsPerPixel
    /\ percentile_max = DefaultPercentileMax
    /\ percentile_min = DefaultPercentileMin
    /\ gray = Unset
    /\ gray_filtered = Unset
    /\ min_val = Unset
    /\ max_val = Unset
    /\ dynamic_range = Unset
    /\ unclamped = Unset
    /\ exc = NoException
    /\ ret = Unset

NoListing ==
    /\ listing = <<>>
    /\ pos = 0
    /\ printed = {}
    /\ ncalls = <<>>
    /\ results = <<>>

Init ==
    /\ NoCall
    /\ NoListing
    /\ pc = "idle"
    /\ first = Unset

Next == Call \/ Load \/ Filter \/ PercentileMin \/ PercentileMax \/ Guard
        \/ Log \/ Clamp \/ Except \/ Return

Spec == Init /\ [][Next]_vars

----------------------------------------------------------------------------
(* Two calls compared: the calls of one caller on a file of its choice and *)
(* on a second file, one of them remembered in first                       *)

Decoy == File(".jpg", [kind |-> "mono", px |-> <<2, 1>>, rgb |-> <<>>])

InitPair ==
    /\ NoCall
    /\ pc = "idle"
    /\ first = Unset
    /\ listing \in {<<w>> : w \in Sources}
    /\ pos = 0
    /\ printed = {}
    /\ ncalls = <<>>
    /\ results = <<>>

CallPair ==
    /\ pc = "idle"
    /\ \E path \in {listing[1], Decoy}, bits \in BitsChoices,
          pmax \in PairMaxChoices, pmin \in PairMinChoices :
            Enter(path, bits, pmax, pmin)
    /\ UNCHANGED <<cli, first>>

Remember ==
    /\ pc = "done"
    /\ first = Unset
    /\ first' = [tag |-> "call", path |-> image_path,
                 bits |-> bits_per_pixel, pmax |-> percentile_max,
                 pmin |-> percentile_min, max_val |-> max_val,
                 unclamped |-> unclamped, ret |-> ret]
    /\ UNCHANGED <<params, locals, pc, exc, ret, cli>>

NextPair == CallPair \/ Remember \/ Load \/ Filter \/ PercentileMin
            \/ PercentileMax \/ Guard \/ Log \/ Clamp \/ Except \/ Return

SpecPair == InitPair /\ [][NextPair]_vars

----------------------------------------------------------------------------
(* __main__, lines 57-67: the loop over os.listdir *)

DirExts == {".png", ".JPG", ".dng", ".py"}

DirContents ==
    {Corrupt}
    \cup {[kind |-> "mono", px |-> f, rgb |-> <<>>] :
             f \in {<<0, 0>>, <<1, 1>>, <<1, 2>>, <<0, 2>>, <<1, 1, BigSample>>}}

DirFiles == {File(x, c) : x \in DirExts, c \in DirContents}

InitCLI ==
    /\ NoCall
    /\ pc = "loop"
    /\ first = Unset
    /\ listing \in SeqsUpTo(DirFiles, MaxFiles)
    /\ pos = 0
    /\ printed = {}
    /\ ncalls = [k \in 1..Len(listing) |-> 0]
    /\ results = [k \in 1..Len(listing) |-> Unset]

(* line 62 false: the entry is passed over *)
Skip ==
    /\ pc = "loop"
    /\ pos < Len(listing)
    /\ ~HasImageExtension(listing[pos + 1])
    /\ pos' = pos + 1
    /\ UNCHANGED <<params, locals, pc, exc, ret, listing, printed, ncalls,
                   results, first>>

(* lines 62-64: the call with the defaults of the signature *)
CallFromLoop ==
    /\ pc = "loop"
    /\ pos < Len(listing)
    /\ HasImageExtension(listing[pos + 1])
    /\ Enter(listing[pos + 1], DefaultBitsPerPixel, DefaultPercentileMax,
             DefaultPercentileMin)
    /\ ncalls' = [ncalls EXCEPT ![pos + 1] = @ + 1]
    /\ UNCHANGED <<listing, pos, printed, results, first>>

(* lines 64-67: the result is printed when it is true *)
Report ==
    /\ pc = "done"
    /\ results' = [results EXCEPT ![pos + 1] = ret]
    /\ printed' = IF Truthy(ret) THEN printed \cup {pos + 1} ELSE printed
    /\ pos' = pos + 1
    /\ pc' = "loop"
    /\ image_path' = File(".jpg", Corrupt)
    /\ bits_per_pixel' = DefaultBitsPerPixel
    /\ percentile_max' = DefaultPercentileMax
    /\ percentile_min' = DefaultPercentileMin
    /\ gray' = Unset
    /\ gray_filtered' = Unset
    /\ min_val' = Unset
    /\ max_val' = Unset
    /\ dynamic_range' = Unset
    /\ unclamped' = Unset
    /\ exc' = NoException
    /\ ret' = Unset
    /\ UNCHANGED <<listing, ncalls, first>>

(* the listing is exhausted *)
Exit ==
    /\ pc = "loop"
    /\ pos = Len(listing)
    /\ pc' = "exit"
    /\ UNCHANGED <<params, locals, exc, ret, cli, first>>

NextCLI == Skip \/ CallFromLoop \/ Report \/ Exit \/ Load \/ Filter
           \/ PercentileMin \/ PercentileMax \/ Guard \/ Log \/ Clamp
           \/ Except

SpecCLI == InitCLI /\ [][NextCLI]_vars

----------------------------------------------------------------------------
(* Properties of calculate_dynamic_range *)

Returned == pc = "done"
ReturnedStops == pc = "done" /\ ret.tag = "stops"
Smoothed == gray_filtered.tag = "array"
NoPositiveSample == Smoothed /\ \A i \in 1..Len(gray_filtered.px) :
                                    gray_filtered.px[i] = 0
ConstantPositive == Smoothed /\ \A i \in 1..Len(gray_filtered.px) :
                                    /\ gray_filtered.px[i] > 0
                                    /\ gray_filtered.px[i] = gray_filtered.px[1]

(* C1: a returned stops value is at most 120 = 20*log10(10^6), whatever    *)
(* the image and the percentiles                                           *)
C1_ResultAtMostCeiling ==
    ret.tag = "stops" => RatioLeqPow10(ret, 6)

C1_Witness ==
    /\ ReturnedStops
    /\ ~RatioLeqPow10(unclamped, 6)
    /\ ret = Stops(1000000, 1, 0)

(* C2: a smoothed field without a strictly positive sample ends in the     *)
(* failure value None: no number is returned and no exception escapes      *)
C2_DegenerateFieldFails ==
    NoPositiveSample =>
        /\ ret \in {Unset, NoneVal}
        /\ dynamic_range = Unset
        /\ pc # "uncaught"
        /\ (Returned => ret = NoneVal)

C2_Witness ==
    /\ Returned
    /\ NoPositiveSample
    /\ Len(gray_filtered.px) >= 2
    /\ ~PercentileInvalid(percentile_min)
    /\ ret = NoneVal

(* C3: when the file cannot be decoded, on the raw branch or the standard  *)
(* branch, the call returns None and no later step has computed anything   *)
C3_DecodeFailureFails ==
    (image_path.kind = "corrupt" /\ pc # "idle") =>
        /\ gray_filtered = Unset
        /\ min_val = Unset
        /\ max_val = Unset
        /\ dynamic_range = Unset
        /\ pc # "uncaught"
        /\ ret \in {Unset, NoneVal}
        /\ (Returned => ret = NoneVal /\ exc # NoException)

C3_Witness ==
    /\ Returned
    /\ image_path.kind = "corrupt"
    /\ ~IsRawPath(image_path)
    /\ exc = "AttributeError"
    /\ ret = NoneVal

(* C4: a call ends either with the stops value of its own complete         *)
(* pipeline or with None; an exception of any step is caught and leaves no *)
(* partial result                                                          *)
C4_OneOfTwoOutcomes ==
    /\ pc # "uncaught"
    /\ Returned =>
        \/ /\ exc = NoException
           /\ ret.tag = "stops"
           /\ gray.tag = "array"
           /\ gray_filtered.tag = "array"
           /\ min_val.tag = "num"
           /\ max_val.tag = "num"
           /\ unclamped.tag = "stops"
           /\ ret = dynamic_range
           /\ ret \in {unclamped, Ceiling}
        \/ /\ exc # NoException
           /\ ret = NoneVal

C4_Witness ==
    /\ Returned
    /\ exc = "ValueError"
    /\ min_val.tag = "num"
    /\ ret = NoneVal

(* C5: with the default percentiles a returned stops value is >= 0 *)
C5_ResultNonNegative ==
    (/\ ReturnedStops
     /\ percentile_max = DefaultPercentileMax
     /\ percentile_min = DefaultPercentileMin) => StopsNonNeg(ret)

(* C6: on a smoothed field of one strictly positive value the two          *)
(* percentile values are equal and the stops before clamping are exactly 0 *)
C6_ConstantFieldZeroStops ==
    ConstantPositive =>
        /\ (max_val.tag = "num" => max_val = min_val)
        /\ (unclamped.tag = "stops" => StopsIsZero(unclamped))

C6_Witness ==
    /\ pc = "clamp"
    /\ ConstantPositive
    /\ Len(gray_filtered.px) >= 2
    /\ percentile_max # percentile_min
    /\ StopsIsZero(unclamped)

(* C10: the low percentile of a non-empty population of strictly positive  *)
(* samples is strictly positive: line 42 never substitutes 1e-10 and the   *)
(* divisor of line 45 is never zero                                        *)
C10_LowValuePositive ==
    min_val.tag = "num" =>
        /\ min_val.m > 0
        /\ min_val # Epsilon
        /\ (unclamped.tag = "stops" => unclamped.den > 0)

C10_Witness ==
    /\ pc = "clamp"
    /\ \E i \in 1..Len(gray_filtered.px) : gray_filtered.px[i] = 0
    /\ percentile_min = 0
    /\ min_val.m > 0
    /\ unclamped.den = min_val.m

----------------------------------------------------------------------------
(* Properties of two calls *)

SameFileAsFirst == first.tag = "call" /\ image_path = first.path /\ pc # "idle"

StopsLeq(a, b) == a.e = b.e /\ RatLeq(a.num, a.den, b.num, b.den)

(* C7: on one smoothed field and one low percentile, a high percentile     *)
(* that is not smaller gives a high value and stops before clamping that   *)
(* are not smaller                                                         *)
C7_MonotoneInHighPercentile ==
    (/\ SameFileAsFirst
     /\ percentile_min = first.pmin
     /\ first.max_val.tag = "num"
     /\ max_val.tag = "num") =>
        /\ first.pmax <= percentile_max =>
            /\ first.max_val.m <= max_val.m
            /\ (first.unclamped.tag = "stops" /\ unclamped.tag = "stops")
                  => StopsLeq(first.unclamped, unclamped)
        /\ percentile_max <= first.pmax =>
            /\ max_val.m <= first.max_val.m
            /\ (first.unclamped.tag = "stops" /\ unclamped.tag = "stops")
                  => StopsLeq(unclamped, first.unclamped)

C7_Witness ==
    /\ SameFileAsFirst
    /\ pc = "clamp"
    /\ percentile_min = first.pmin
    /\ first.pmax < percentile_max
    /\ first.max_val.tag = "num"
    /\ first.max_val.m < max_val.m
    /\ first.unclamped.tag = "stops"
    /\ ~StopsLeq(unclamped, first.unclamped)

(* C8: two calls on one file with the same percentiles return the same     *)
(* outcome, whatever bits_per_pixel they are given and whatever was called *)
(* between them                                                            *)
C8_OutcomeIndependentOfBits ==
    (/\ SameFileAsFirst
     /\ Returned
     /\ percentile_max = first.pmax
     /\ percentile_min = first.pmin) => ret = first.ret

C8_Witness ==
    /\ SameFileAsFirst
    /\ Returned
    /\ percentile_max = first.pmax
    /\ percentile_min = first.pmin
    /\ bits_per_pixel # first.bits
    /\ ret.tag = "stops"
    /\ ret = first.ret

----------------------------------------------------------------------------
(* Properties of the loop *)

(* C9: when the loop has finished, every entry with a listed ending was    *)
(* passed to the estimator once, and an entry was printed exactly when the *)
(* estimator returned a stops value for it                                 *)
C9_PrintedIffStops ==
    pc = "exit" =>
        \A k \in 1..Len(listing) :
            /\ ncalls[k] = IF HasImageExtension(listing[k]) THEN 1 ELSE 0
            /\ k \in printed <=> results[k].tag = "stops"

====
